---- MODULE Spec2Model ----
(***************************************************************************)
(* Model of discord-aqi-bot: the AirNow client and response mapper         *)
(* (lib/airnow.py) and the report handler (handler.py).                    *)
(*                                                                         *)
(* Conventions.                                                            *)
(*  - Optional[T] is a sequence of length <= 1: None is <<>>, a present    *)
(*    value x is <<x>>.                                                    *)
(*  - The outcome of a call is [exc |-> e, val |-> v]: exc = "none" when   *)
(*    the call returns v, otherwise the name of the exception raised.      *)
(*  - A date string is a sequence of tokens: one token for the ISO text    *)
(*    (e.g. "2020-09-12") followed by zero or more " " tokens.             *)
(*  - A Python dict is a function; insertion order, where the code relies  *)
(*    on it, is kept as a separate key sequence.                           *)
(***************************************************************************)
EXTENDS Integers, Sequences, FiniteSets, TLC

VARIABLES
    op,             \* the operation that was applied last ("none" before any)
    result,         \* the outcome of that operation
    \* -- response mapper and client (SpecMapper)
    endpoint,       \* which endpoint the response came from
    data,           \* the JSON array handed to the client / builder
    status,         \* HTTP status of the response (0 when no HTTP call was made)
    \* -- Observation construction (SpecTz)
    arg_tz,         \* the LocalTimeZone code passed in
    arg_date,       \* the observation's date passed in
    arg_hour,       \* the observation's hour passed in
    \* -- is_evening (SpecEve)
    morning_range,  \* <<start_hour, end_hour>>
    utcnow,         \* datetime.datetime.now(utc): [date, second of the day]
    \* -- report renderer (SpecRender)
    current,        \* the Observation to render
    forecast,       \* the list of Forecasts to render
    picked,         \* which entity get_aqi_rows was given: 0 current, k forecast[k]
    \* -- the report cycle (SpecCycle); it also uses current, forecast,
    \*    morning_range and utcnow as the handler's locals
    env,            \* os.environ: the configuration keys that are set
    range_text,     \* the value of AQI_BOT_MORNING_RANGE_UTC, when set
    pc,             \* where aqi_report stands
    calls,          \* the external calls of the running invocation, in order
    today,          \* the process's current calendar date
    default_date,   \* get_forecast.__defaults__[0], bound when the module was loaded
    invocations     \* how many times aqi_report was invoked in this process

mapperVars == <<endpoint, data, status>>
tzVars == <<arg_tz, arg_date, arg_hour>>
eveVars == <<morning_range, utcnow>>
renderVars == <<current, forecast, picked>>
cycleVars == <<env, range_text, pc, calls, today, default_date, invocations>>

vars == <<op, result, mapperVars, tzVars, eveVars, renderVars, cycleVars>>

----------------------------------------------------------------------------
(* Generic helpers                                                         *)

None == <<>>
Some(x) == <<x>>

Ok(v) == [exc |-> "none", val |-> v]
Raise(e) == [exc |-> e, val |-> <<>>]

\* d[k] = v on a dict (a function), adding k when it is new
DictSet(d, k, v) == [x \in (DOMAIN d) \cup {k} |-> IF x = k THEN v ELSE d[x]]

RECURSIVE SeqsUpTo(_, _)
\* all sequences over S of length 0..n
SeqsUpTo(S, n) ==
    IF n = 0 THEN {<<>>}
    ELSE LET shorter == SeqsUpTo(S, n - 1)
         IN  shorter \cup {Append(s, x) : s \in {t \in shorter : Len(t) = n - 1}, x \in S}

Range(s) == {s[i] : i \in 1..Len(s)}

----------------------------------------------------------------------------
(* lib/airnow.py: module constants and value types                         *)

TzCodes == {"HST", "HDT", "AKST", "AKDT", "PST", "PDT", "MST", "MDT",
            "CST", "CDT", "EST", "EDT", "AST", "ADT"}

TIMEZONE_LOOKUP ==
    [tz \in TzCodes |->
        CASE tz = "HST"  -> -10
          [] tz = "HDT"  -> -9
          [] tz = "AKST" -> -9
          [] tz = "AKDT" -> -8
          [] tz = "PST"  -> -8
          [] tz = "PDT"  -> -7
          [] tz = "MST"  -> -7
          [] tz = "MDT"  -> -6
          [] tz = "CST"  -> -6
          [] tz = "CDT"  -> -5
          [] tz = "EST"  -> -5
          [] tz = "EDT"  -> -4
          [] tz = "AST"  -> -4
          [] tz = "ADT"  -> -3]

Abs(n) == IF n < 0 THEN -n ELSE n

\* datetime.timedelta(hours=h), kept in whole hours
timedelta(h) == h

\* get_timezone with the sign of the offset lost (abs() kept, negation dropped)
get_timezone_unsigned(tz) ==
    IF tz \notin DOMAIN TIMEZONE_LOOKUP THEN Raise("KeyError")
    ELSE Ok([utcoffset |-> timedelta(Abs(TIMEZONE_LOOKUP[tz])), name |-> tz])

\* get_timezone(tz): TIMEZONE_LOOKUP[tz] raises KeyError for a code that is
\* not in the table; otherwise timezone(delta, tz)
get_timezone(tz) ==
    IF tz \notin DOMAIN TIMEZONE_LOOKUP THEN Raise("KeyError")
    ELSE LET offset == TIMEZONE_LOOKUP[tz]
             delta  == IF offset < 0 THEN -timedelta(Abs(offset))
                                     ELSE timedelta(offset)
         IN  Ok([utcoffset |-> delta, name |-> tz])

\* Severity(n): the enum has the values 1..6, any other number is a ValueError
SeverityValues == 1..6
Severity(n) == IF n \in SeverityValues THEN Ok(n) ELSE Raise("ValueError")

\* AQI(name, aqi, severity, is_action_day=None)
AQI(name, aqi, severity, is_action_day) ==
    [name |-> name, AQI |-> aqi, severity |-> severity, is_action_day |-> is_action_day]

\* the metric fields of Observation and Forecast, in declaration order
Slots == <<"CO", "NO2", "O3", "PM2_5", "PM10">>
SlotNames == Range(Slots)

\* str.rstrip() on a date string
RECURSIVE rstrip(_)
rstrip(s) ==
    IF Len(s) > 0 /\ s[Len(s)] = " " THEN rstrip(SubSeq(s, 1, Len(s) - 1)) ELSE s

\* the ISO texts that name a calendar date
IsoDates == {"2020-09-11", "2020-09-12", "2020-09-13"}

\* datetime.date.fromisoformat(s): exactly one ISO token, nothing after it
fromisoformat(s) ==
    IF Len(s) = 1 /\ s[1] \in IsoDates THEN Ok(s[1]) ELSE Raise("ValueError")

\* metric_name: "PM2.5" is renamed, every other label is used as it is
MetricName(parameterName) ==
    IF parameterName = "PM2.5" THEN "PM2_5" ELSE parameterName

----------------------------------------------------------------------------
(* lib/airnow.py: Observation and Forecast                                 *)

\* datetime.datetime(year, month, day, hour, tzinfo=tz): hour must be 0..23
HoursOfDay == 0..23
datetime(date, hour, tz) ==
    IF hour \in HoursOfDay
    THEN Ok([date |-> date, hour |-> hour, utcoffset |-> tz.utcoffset, tzname |-> tz.name])
    ELSE Raise("ValueError")

\* Observation.__post_init__: builds datetime_observed; get_timezone is
\* evaluated first, so an unknown code fails before the hour is looked at
post_init(date_observed, hour_observed, local_tz) ==
    LET tz == get_timezone(local_tz)
    IN  IF tz.exc # "none" THEN tz ELSE datetime(date_observed, hour_observed, tz.val)

\* the slot of a keyword dict, None when the keyword was not passed
SlotOf(kwargs, s) == IF s \in DOMAIN kwargs THEN Some(kwargs[s]) ELSE None

\* Observation(*args, **kwargs): the five metric fields default to None; a
\* keyword that is no field is a TypeError; then __post_init__ runs
Observation(date_observed, hour_observed, local_tz, reporting_area, kwargs) ==
    IF ~(DOMAIN kwargs \subseteq SlotNames) THEN Raise("TypeError")
    ELSE LET dt == post_init(date_observed, hour_observed, local_tz)
         IN  IF dt.exc # "none" THEN dt
             ELSE Ok([date_observed |-> date_observed,
                      hour_observed |-> hour_observed,
                      local_tz |-> local_tz,
                      reporting_area |-> reporting_area,
                      CO |-> SlotOf(kwargs, "CO"),
                      NO2 |-> SlotOf(kwargs, "NO2"),
                      O3 |-> SlotOf(kwargs, "O3"),
                      PM2_5 |-> SlotOf(kwargs, "PM2_5"),
                      PM10 |-> SlotOf(kwargs, "PM10"),
                      datetime_observed |-> dt.val])

\* Forecast(*args, **kwargs): CO, NO2, O3, PM2_5 and PM10 are declared without
\* a default, so the generated __init__ raises TypeError when one of them is
\* not passed (and when a keyword is no field); discussion defaults to None
Forecast(date_issued, date_forecast, reporting_area, kwargs) ==
    IF ~(DOMAIN kwargs \subseteq SlotNames) THEN Raise("TypeError")
    ELSE IF ~(SlotNames \subseteq DOMAIN kwargs) THEN Raise("TypeError")
    ELSE Ok([date_issued |-> date_issued,
             date_forecast |-> date_forecast,
             reporting_area |-> reporting_area,
             CO |-> SlotOf(kwargs, "CO"),
             NO2 |-> SlotOf(kwargs, "NO2"),
             O3 |-> SlotOf(kwargs, "O3"),
             PM2_5 |-> SlotOf(kwargs, "PM2_5"),
             PM10 |-> SlotOf(kwargs, "PM10"),
             discussion |-> None])

\* Observation.__iter__ / Forecast.__iter__: the five slots in fixed order
Iter(e) == <<e.CO, e.NO2, e.O3, e.PM2_5, e.PM10>>

----------------------------------------------------------------------------
(* lib/airnow.py: the response mapper                                      *)

\* the loop of _build_observation with the assignment guarded, so that the
\* first record of a slot is kept and later ones are dropped
RECURSIVE ObservationKwargsFirstWins(_, _, _)
ObservationKwargsFirstWins(dps, i, kwargs) ==
    IF i > Len(dps) THEN Ok(kwargs)
    ELSE LET dp  == dps[i]
             sev == Severity(dp.Category.Number)
         IN  IF sev.exc # "none" THEN sev
             ELSE LET aqi == AQI(dp.ParameterName, dp.AQI, sev.val, None)
                      metric_name == MetricName(dp.ParameterName)
                  IN  ObservationKwargsFirstWins(dps, i + 1,
                          IF metric_name \in DOMAIN kwargs THEN kwargs
                          ELSE DictSet(kwargs, metric_name, aqi))

\* the loop of _build_observation: one AQI per record (is_action_day left at
\* its default), stored under its metric name; a later record overwrites
RECURSIVE ObservationKwargs(_, _, _)
ObservationKwargs(dps, i, kwargs) ==
    IF i > Len(dps) THEN Ok(kwargs)
    ELSE LET dp  == dps[i]
             sev == Severity(dp.Category.Number)
         IN  IF sev.exc # "none" THEN sev
             ELSE LET aqi == AQI(dp.ParameterName, dp.AQI, sev.val, None)
                      metric_name == MetricName(dp.ParameterName)
                  IN  ObservationKwargs(dps, i + 1, DictSet(kwargs, metric_name, aqi))

\* AirNow._build_observation(data): data[0] raises IndexError on an empty list
build_observation(records) ==
    IF Len(records) = 0 THEN Raise("IndexError")
    ELSE LET date == fromisoformat(rstrip(records[1].DateObserved))
         IN  IF date.exc # "none" THEN date
             ELSE LET kw == ObservationKwargs(records, 1, <<>>)
                  IN  IF kw.exc # "none" THEN kw
                      ELSE Observation(date.val,
                                       records[1].HourObserved,
                                       records[1].LocalTimeZone,
                                       records[1].ReportingArea,
                                       kw.val)

\* the first loop of _build_forecasts: dates[dp_date] collects the records of
\* one raw DateForecast string; keys holds the dict's insertion order
RECURSIVE GroupByDate(_, _, _)
GroupByDate(dps, i, dates) ==
    IF i > Len(dps) THEN dates
    ELSE LET dp == dps[i]
             dp_date == dp.DateForecast
         IN  IF dp_date \in DOMAIN dates.groups
             THEN GroupByDate(dps, i + 1,
                      [dates EXCEPT !.groups[dp_date] = Append(@, dp)])
             ELSE GroupByDate(dps, i + 1,
                      [keys |-> Append(dates.keys, dp_date),
                       groups |-> DictSet(dates.groups, dp_date, <<dp>>)])

\* the inner loop of _build_forecasts: as for observations, with
\* is_action_day taken from the record's ActionDay
RECURSIVE ForecastKwargs(_, _, _)
ForecastKwargs(dps, i, kwargs) ==
    IF i > Len(dps) THEN Ok(kwargs)
    ELSE LET dp  == dps[i]
             sev == Severity(dp.Category.Number)
         IN  IF sev.exc # "none" THEN sev
             ELSE LET aqi == AQI(dp.ParameterName, dp.AQI, sev.val, Some(dp.ActionDay))
                      metric_name == MetricName(dp.ParameterName)
                  IN  ForecastKwargs(dps, i + 1, DictSet(kwargs, metric_name, aqi))

\* the body of the second loop of _build_forecasts for one group
ForecastOfGroup(dp_list) ==
    LET issued == fromisoformat(rstrip(dp_list[1].DateIssue))
    IN  IF issued.exc # "none" THEN issued
        ELSE LET date == fromisoformat(rstrip(dp_list[1].DateForecast))
             IN  IF date.exc # "none" THEN date
                 ELSE LET kw == ForecastKwargs(dp_list, 1, <<>>)
                      IN  IF kw.exc # "none" THEN kw
                          ELSE Forecast(issued.val, date.val,
                                        dp_list[1].ReportingArea, kw.val)

\* the second loop of _build_forecasts: one Forecast per group, in the
\* dict's insertion order; the first exception ends the call
RECURSIVE ForecastsLoop(_, _, _)
ForecastsLoop(dates, k, forecasts) ==
    IF k > Len(dates.keys) THEN Ok(forecasts)
    ELSE LET f == ForecastOfGroup(dates.groups[dates.keys[k]])
         IN  IF f.exc # "none" THEN f
             ELSE ForecastsLoop(dates, k + 1, Append(forecasts, f.val))

\* AirNow._build_forecasts(data): an empty list yields an empty list
build_forecasts(records) ==
    ForecastsLoop(GroupByDate(records, 1, [keys |-> <<>>, groups |-> <<>>]), 1, <<>>)

----------------------------------------------------------------------------
(* lib/airnow.py: the client                                               *)

\* response.raise_for_status(): a 4xx/5xx status raises, a 2xx status does
\* not (1xx/3xx answers are not among the statuses used)
raise_for_status(code) == IF code >= 400 THEN Raise("HTTPStatusError") ELSE Ok(code)

\* get_current without the empty-array check
get_current_unchecked(response) ==
    IF raise_for_status(response.status).exc # "none" THEN raise_for_status(response.status)
    ELSE build_observation(response.json)

\* AirNow.get_current: GET, raise_for_status, NoDataError on an empty array,
\* otherwise _build_observation
get_current(response) ==
    IF raise_for_status(response.status).exc # "none" THEN raise_for_status(response.status)
    ELSE IF Len(response.json) = 0 THEN Raise("NoDataError")
    ELSE build_observation(response.json)

\* AirNow.get_forecast: as get_current, with _build_forecasts
get_forecast(response) ==
    IF raise_for_status(response.status).exc # "none" THEN raise_for_status(response.status)
    ELSE IF Len(response.json) = 0 THEN Raise("NoDataError")
    ELSE build_forecasts(response.json)

----------------------------------------------------------------------------
(* Responses of the AirNow API used as inputs                              *)

MaxObsLen == 3      \* longest observation array
MaxFcLen == 3       \* longest forecast array of freely chosen records
MaxDays == 2        \* most dates in a forecast array that carries all five pollutants per date

Labels == {"CO", "NO2", "O3", "PM2.5", "PM10"}
LabelOrder == <<"CO", "NO2", "O3", "PM2.5", "PM10">>

\* (AQI, Category.Number) pairs; the last one carries a category outside 1..6
Readings == {<<42, 1>>, <<155, 4>>}
BadReading == <<501, 7>>

ObsRecord(date, tz, label, reading) ==
    [DateObserved |-> date, HourObserved |-> 14, LocalTimeZone |-> tz,
     ReportingArea |-> "Sacramento", ParameterName |-> label,
     AQI |-> reading[1], Category |-> [Number |-> reading[2]]]

ObsDateTexts == {<<"2020-09-12">>, <<"2020-09-12", " ">>}
ObsTzSample == {"PST", "UTC"}
ObsItems == ((Labels \cup {"OZONE"}) \X Readings) \cup {<<"O3", BadReading>>}

\* observation arrays: one header (date, zone) shared by all records, as the
\* API sends them, and up to MaxObsLen (pollutant, reading) entries
ObsInputs ==
    {[i \in 1..Len(body) |-> ObsRecord(h[1], h[2], body[i][1], body[i][2])] :
        h \in ObsDateTexts \X ObsTzSample, body \in SeqsUpTo(ObsItems, MaxObsLen)}

FcRecord(date, label) ==
    [DateIssue |-> <<"2020-09-11", " ">>, DateForecast |-> date,
     ReportingArea |-> "Sacramento", ParameterName |-> label,
     AQI |-> IF label = "O3" THEN 155 ELSE 42,
     Category |-> [Number |-> IF label = "O3" THEN 4 ELSE 1],
     ActionDay |-> (label = "O3")]

FcDateTexts == {<<"2020-09-12">>, <<"2020-09-12", " ">>, <<"2020-09-13">>}

\* all five pollutants for each date of ds, date after date
DayMajor(ds) ==
    [i \in 1..(5 * Len(ds)) |-> FcRecord(ds[((i - 1) \div 5) + 1], LabelOrder[((i - 1) % 5) + 1])]

\* the same records interleaved: pollutant after pollutant, the dates cycling
PollutantMajor(ds) ==
    [i \in 1..(5 * Len(ds)) |->
        FcRecord(ds[((i - 1) % Len(ds)) + 1], LabelOrder[((i - 1) \div Len(ds)) + 1])]

\* five records alternating between two dates: a/CO, b/NO2, a/O3, b/PM2.5, a/PM10
Alternating(a, b) ==
    [i \in 1..5 |-> FcRecord(IF i % 2 = 1 THEN a ELSE b, LabelOrder[i])]

\* forecast arrays: freely chosen records up to MaxFcLen, arrays that carry
\* all five pollutants for up to MaxDays dates, in either order, and the
\* alternating arrays
FcInputs ==
    {[i \in 1..Len(body) |-> FcRecord(body[i][1], body[i][2])] :
        body \in SeqsUpTo(FcDateTexts \X Labels, MaxFcLen)}
    \cup {DayMajor(ds) : ds \in SeqsUpTo(FcDateTexts, MaxDays)}
    \cup {PollutantMajor(ds) : ds \in SeqsUpTo(FcDateTexts, MaxDays) \ {<<>>}}
    \cup {Alternating(a, b) : a \in FcDateTexts, b \in FcDateTexts}

Statuses == {200, 404, 500}

----------------------------------------------------------------------------
(* Specification SpecMapper: one response, one call of the mapper/client   *)

\* the variables of the other specifications, parked
TzIdle == arg_tz = "PST" /\ arg_date = "2020-09-12" /\ arg_hour = 0
EveIdle == morning_range = <<15, 19>> /\ utcnow = [date |-> 18517, second |-> 0]
RenderIdle == current = <<>> /\ forecast = <<>> /\ picked = 0
CycleIdle ==
    /\ env = {} /\ range_text = <<>> /\ pc = "off" /\ calls = <<>>
    /\ today = [year |-> 2020, month |-> 9, day |-> 12]
    /\ default_date = [year |-> 2020, month |-> 9, day |-> 12]
    /\ invocations = 0

InitMapper ==
    /\ \/ endpoint = "observation" /\ data \in ObsInputs
       \/ endpoint = "forecast" /\ data \in FcInputs
    /\ status = 0
    /\ op = "none"
    /\ result = Ok(<<>>)
    /\ TzIdle /\ EveIdle /\ RenderIdle /\ CycleIdle

CallBuildObservation ==
    /\ op = "none" /\ endpoint = "observation"
    /\ op' = "_build_observation"
    /\ result' = build_observation(data)
    /\ UNCHANGED <<mapperVars, tzVars, eveVars, renderVars, cycleVars>>

CallBuildForecasts ==
    /\ op = "none" /\ endpoint = "forecast"
    /\ op' = "_build_forecasts"
    /\ result' = build_forecasts(data)
    /\ UNCHANGED <<mapperVars, tzVars, eveVars, renderVars, cycleVars>>

CallGetCurrent ==
    /\ op = "none" /\ endpoint = "observation"
    /\ \E st \in Statuses :
        /\ status' = st
        /\ result' = get_current([status |-> st, json |-> data])
    /\ op' = "get_current"
    /\ UNCHANGED <<endpoint, data, tzVars, eveVars, renderVars, cycleVars>>

CallGetForecast ==
    /\ op = "none" /\ endpoint = "forecast"
    /\ \E st \in Statuses :
        /\ status' = st
        /\ result' = get_forecast([status |-> st, json |-> data])
    /\ op' = "get_forecast"
    /\ UNCHANGED <<endpoint, data, tzVars, eveVars, renderVars, cycleVars>>

NextMapper ==
    \/ CallBuildObservation
    \/ CallBuildForecasts
    \/ CallGetCurrent
    \/ CallGetForecast

SpecMapper == InitMapper /\ [][NextMapper]_vars

----------------------------------------------------------------------------
(* Properties of the response mapper (checked under SpecMapper)            *)

Max(S) == CHOOSE x \in S : \A y \in S : y <= x

\* the records of an observation array the mapper accepts: recognised
\* labels, categories in 1..6 and a zone of the table in the first record
Accepted(records) ==
    /\ \A i \in 1..Len(records) :
        /\ MetricName(records[i].ParameterName) \in SlotNames
        /\ records[i].Category.Number \in SeverityValues
    /\ records[1].LocalTimeZone \in TzCodes

\* the metric of the last record of `records` that maps to slot s, or None
LastMetric(records, s) ==
    LET idx == {i \in 1..Len(records) : MetricName(records[i].ParameterName) = s}
    IN  IF idx = {} THEN None
        ELSE LET dp == records[Max(idx)]
             IN  Some(AQI(dp.ParameterName, dp.AQI, dp.Category.Number, None))

\* C2: _build_observation on a non-empty array returns, for every array the
\* mapper accepts, an Observation whose five slots each hold the metric of
\* the LAST record mapping to the slot ("PM2.5" maps to PM2_5, any other
\* label to itself) and None when no record maps to it, with at least one
\* slot not None; duplicates are not rejected.  An array it does not accept
\* (unrecognised label, category outside 1..6, unknown zone) raises instead.
C2_LastWriteWins ==
    (op = "_build_observation" /\ Len(data) > 0) =>
        IF Accepted(data)
        THEN /\ result.exc = "none"
             /\ \A s \in SlotNames : result.val[s] = LastMetric(data, s)
             /\ \E s \in SlotNames : result.val[s] # None
        ELSE result.exc \in {"TypeError", "ValueError", "KeyError"}

\* C2 witness: two PM2.5 records with different readings around a CO record;
\* the PM2_5 slot holds the later one and an unreported slot is None
C2_Witness ==
    /\ op = "_build_observation" /\ Len(data) = 3 /\ result.exc = "none"
    /\ data[1].ParameterName = "PM2.5" /\ data[3].ParameterName = "PM2.5"
    /\ data[2].ParameterName = "CO"
    /\ data[1].AQI # data[3].AQI
    /\ result.val.PM2_5 # None /\ result.val.PM2_5[1].AQI = data[3].AQI
    /\ result.val.O3 = None

\* C3 as stated: both builders fail with NoDataError on an empty array
C3_Original ==
    (op \in {"_build_observation", "_build_forecasts"} /\ Len(data) = 0)
        => result.exc = "NoDataError"

\* C3 amended: the empty-array check is made by the client calls: get_current
\* and get_forecast fail with NoDataError when the response has a success
\* status and an empty array (and only then); called directly on an empty
\* array, _build_observation fails with IndexError and _build_forecasts
\* returns the empty list.
C3_NoDataInClient ==
    /\ (op \in {"get_current", "get_forecast"} /\ status < 400)
          => (result.exc = "NoDataError" <=> Len(data) = 0)
    /\ (op \in {"get_current", "get_forecast"} /\ status >= 400)
          => result.exc = "HTTPStatusError"
    /\ (op = "_build_observation" /\ Len(data) = 0) => result.exc = "IndexError"
    /\ (op = "_build_forecasts" /\ Len(data) = 0) => result = Ok(<<>>)

\* C3 witness: get_current received 200 with an empty array and raised NoDataError
C3_Witness ==
    op = "get_current" /\ status = 200 /\ Len(data) = 0 /\ result.exc = "NoDataError"

RECURSIVE FirstSeen(_, _, _)
\* the distinct values of s in the order they first occur
FirstSeen(s, i, acc) ==
    IF i > Len(s) THEN acc
    ELSE FirstSeen(s, i + 1, IF s[i] \in Range(acc) THEN acc ELSE Append(acc, s[i]))

DateForecasts(records) == [i \in 1..Len(records) |-> records[i].DateForecast]

\* C1 as stated: on every non-empty forecast array with recognised labels
\* _build_forecasts returns one Forecast per distinct DateForecast value, in
\* first-seen order, and a slot of a Forecast is populated iff some record
\* of that date reports the pollutant (also with fewer than five pollutants
\* for a date)
C1_Original ==
    (op = "_build_forecasts" /\ Len(data) > 0) =>
        LET keys == FirstSeen(DateForecasts(data), 1, <<>>)
        IN  /\ result.exc = "none"
            /\ Len(result.val) = Len(keys)
            /\ \A k \in 1..Len(keys) :
                /\ result.val[k].date_forecast = rstrip(keys[k])[1]
                /\ \A s \in SlotNames :
                    (result.val[k][s] # None) <=>
                        \E i \in 1..Len(data) :
                            /\ data[i].DateForecast = keys[k]
                            /\ MetricName(data[i].ParameterName) = s

\* C10 as stated: no two Forecasts of a returned list share date_forecast,
\* also when DateForecast strings carry trailing whitespace
C10_Original ==
    (op = "_build_forecasts" /\ Len(data) > 0 /\ result.exc = "none") =>
        \A i, j \in 1..Len(result.val) :
            i # j => result.val[i].date_forecast # result.val[j].date_forecast

----------------------------------------------------------------------------
(* Specification SpecTz: get_timezone and Observation.__post_init__        *)

MapperIdle == endpoint = "observation" /\ data = <<>> /\ status = 0

\* zone codes passed in: the table's codes and some that are not in it
TzInputs == TzCodes \cup {"UTC", "GMT", "pst", ""}

InitTz ==
    /\ arg_tz \in TzInputs
    /\ arg_date \in IsoDates
    /\ arg_hour \in HoursOfDay
    /\ op = "none"
    /\ result = Ok(<<>>)
    /\ MapperIdle /\ EveIdle /\ RenderIdle /\ CycleIdle

CallGetTimezone ==
    /\ op = "none"
    /\ op' = "get_timezone"
    /\ result' = get_timezone(arg_tz)
    /\ UNCHANGED <<mapperVars, tzVars, eveVars, renderVars, cycleVars>>

CallPostInit ==
    /\ op = "none"
    /\ op' = "__post_init__"
    /\ result' = post_init(arg_date, arg_hour, arg_tz)
    /\ UNCHANGED <<mapperVars, tzVars, eveVars, renderVars, cycleVars>>

NextTz ==
    \/ CallGetTimezone
    \/ CallPostInit

SpecTz == InitTz /\ [][NextTz]_vars

\* the 14 supported codes and their offsets, as documented
SupportedCodes ==
    <<"HST", "HDT", "AKST", "AKDT", "PST", "PDT", "MST", "MDT",
      "CST", "CDT", "EST", "EDT", "AST", "ADT">>
DocumentedOffsets == <<-10, -9, -9, -8, -8, -7, -7, -6, -6, -5, -5, -4, -4, -3>>

\* C9: get_timezone returns, for each of the 14 supported codes, its fixed
\* whole-hour UTC offset (all within -10..-3), whatever the date and hour it
\* is combined with, and for any other code it raises (the table lookup's
\* KeyError, the spec's UnknownTimezoneError) instead of returning an offset.
C9_TimezoneTable ==
    /\ op = "get_timezone" =>
        /\ \A k \in 1..14 : arg_tz = SupportedCodes[k] =>
              /\ result.exc = "none"
              /\ result.val.utcoffset = DocumentedOffsets[k]
              /\ result.val.utcoffset \in -10..-3
        /\ arg_tz \notin Range(SupportedCodes) => result.exc = "KeyError"
    /\ op = "__post_init__" =>
        /\ \A k \in 1..14 : arg_tz = SupportedCodes[k] =>
              /\ result.exc = "none"
              /\ result.val.utcoffset = DocumentedOffsets[k]
              /\ result.val.date = arg_date /\ result.val.hour = arg_hour
        /\ arg_tz \notin Range(SupportedCodes) => result.exc = "KeyError"

\* C9 witness: AKDT resolved to -8 hours
C9_Witness ==
    op = "get_timezone" /\ arg_tz = "AKDT" /\ arg_date = "2020-09-13"
    /\ result.exc = "none" /\ result.val.utcoffset = -8

----------------------------------------------------------------------------
(* handler.py: is_evening                                                  *)

\* datetime.datetime.combine(date, datetime.time(hour=h), utc)
combine(date, hour) == [date |-> date, second |-> hour * 3600]

\* a <= b on aware datetimes of the same zone
DatetimeLeq(a, b) == a.date < b.date \/ (a.date = b.date /\ a.second <= b.second)

\* is_evening with the end of the window excluded
is_evening_exclusive(range, current_datetime) ==
    LET start_morning == combine(current_datetime.date, range[1])
        end_morning == combine(current_datetime.date, range[2])
    IN  ~(DatetimeLeq(start_morning, current_datetime)
          /\ DatetimeLeq(current_datetime, end_morning)
          /\ current_datetime # end_morning)

\* is_evening(morning_range), with the clock reading passed in
is_evening(range, current_datetime) ==
    LET start_morning == combine(current_datetime.date, range[1])
        end_morning == combine(current_datetime.date, range[2])
    IN  IF DatetimeLeq(start_morning, current_datetime)
           /\ DatetimeLeq(current_datetime, end_morning)
        THEN FALSE
        ELSE TRUE

----------------------------------------------------------------------------
(* Specification SpecEve: is_evening over windows and clock readings       *)

\* UTC dates as day numbers, and the sampled minutes and seconds of an hour
UtcDates == {18517, 18518}
MinuteSample == {0, 30, 59}
SecondSample == {0, 1}

TimeOfDay(h, m, sec) == h * 3600 + m * 60 + sec

InitEve ==
    /\ morning_range \in HoursOfDay \X HoursOfDay
    /\ utcnow \in {[date |-> d, second |-> TimeOfDay(h, m, sec)] :
                     d \in UtcDates, h \in HoursOfDay, m \in MinuteSample, sec \in SecondSample}
    /\ op = "none"
    /\ result = Ok(<<>>)
    /\ MapperIdle /\ TzIdle /\ RenderIdle /\ CycleIdle

CallIsEvening ==
    /\ op = "none"
    /\ op' = "is_evening"
    /\ result' = Ok(is_evening(morning_range, utcnow))
    /\ UNCHANGED <<mapperVars, tzVars, eveVars, renderVars, cycleVars>>

NextEve == CallIsEvening

SpecEve == InitEve /\ [][NextEve]_vars

----------------------------------------------------------------------------
(* handler.py: the report renderer                                         *)
(* A rendered text is the sequence of its lines; a line is                 *)
(* [kind |-> k, text |-> <<tokens>>].                                      *)

Line(kind, text) == [kind |-> kind, text |-> text]

\* len() of the pollutant labels, and of the decimal text of an AQI value
StrLen(name) ==
    CASE name = "CO" -> 2 [] name = "O3" -> 2 [] name = "NO2" -> 3
      [] name = "PM10" -> 4 [] name = "PM2.5" -> 5 [] OTHER -> 5
Digits(n) == IF n < 10 THEN 1 ELSE IF n < 100 THEN 2 ELSE 3

\* the number of pad characters str.rjust(8) / str.ljust(8) adds
Pad(len) == IF len < 8 THEN 8 - len ELSE 0

\* one table row: name.rjust(8) + "  |" + "  " + str(AQI).ljust(8)
Row(metric) ==
    Line("row", <<Pad(StrLen(metric.name)), metric.name, "|", metric.AQI, Pad(Digits(metric.AQI))>>)

\* get_aqi_rows that emits the rows from the last slot to the first
RECURSIVE RowsLoopReversed(_, _, _)
RowsLoopReversed(metrics, i, rows) ==
    IF i > Len(metrics) THEN rows
    ELSE RowsLoopReversed(metrics, i + 1,
            IF metrics[i] # None THEN <<Row(metrics[i][1])>> \o rows ELSE rows)

RECURSIVE RowsLoop(_, _, _)
\* the loop of get_aqi_rows: a row for every metric that is not None, in the
\* order the entity yields them
RowsLoop(metrics, i, rows) ==
    IF i > Len(metrics) THEN rows
    ELSE RowsLoop(metrics, i + 1,
            IF metrics[i] # None THEN Append(rows, Row(metrics[i][1])) ELSE rows)

\* get_aqi_rows(aqi_data); rstrip("\n") removes the last row's terminator,
\* which a sequence of lines does not carry
get_aqi_rows(aqi_data) == RowsLoop(Iter(aqi_data), 1, <<>>)

\* date.strftime('%A')
Weekday(date) ==
    CASE date = "2020-09-11" -> "Friday"
      [] date = "2020-09-12" -> "Saturday"
      [] date = "2020-09-13" -> "Sunday"

\* get_title_block(day, is_evening)
get_title_block(day, evening) ==
    IF evening THEN <<Line("title", <<day, "Evening">>)>>
               ELSE <<Line("title", <<day, "Morning">>)>>

\* get_forecast_block(forecast)
get_forecast_block(f) ==
    <<Line("forecast_header", <<"Forecast AQI">>),
      Line("forecast_for", <<f.date_forecast>>),
      Line("location", <<f.reporting_area>>)>>
    \o get_aqi_rows(f)

RECURSIVE JoinBlocks(_, _)
\* "".join([get_forecast_block(f) for f in forecasts])
JoinBlocks(fs, i) ==
    IF i > Len(fs) THEN <<>> ELSE get_forecast_block(fs[i]) \o JoinBlocks(fs, i + 1)

\* render_message(current, forecasts, morning_range), with the clock reading
\* that is_evening takes passed in
render_message(cur, fs, range, now) ==
    get_title_block(Weekday(cur.date_observed), is_evening(range, now))
    \o <<Line("current_header", <<"Current AQI">>),
         Line("recorded", <<cur.datetime_observed>>),
         Line("location", <<cur.reporting_area>>)>>
    \o get_aqi_rows(cur)
    \o JoinBlocks(fs, 1)

----------------------------------------------------------------------------
(* Specification SpecRender: rendering of entities                         *)

MaxForecasts == 2   \* longest list of forecast rendered

\* the metric an entity holds in slot s
SampleMetric(s, action_day) ==
    CASE s = "CO"    -> AQI("CO", 7, 1, action_day)
      [] s = "NO2"   -> AQI("NO2", 42, 1, action_day)
      [] s = "O3"    -> AQI("O3", 155, 4, action_day)
      [] s = "PM2_5" -> AQI("PM2.5", 61, 2, action_day)
      [] s = "PM10"  -> AQI("PM10", 301, 6, action_day)

\* observations with every choice of populated slots (at least one)
ObservationEntities ==
    {Observation("2020-09-12", 14, "PDT", "Sacramento",
                 [s \in S |-> SampleMetric(s, None)]).val :
        S \in (SUBSET SlotNames) \ {{}}}

\* Forecast(..., CO, NO2, O3, PM2_5, PM10) with None passed for the slots
\* outside S
ForecastEntity(date, S) ==
    [date_issued |-> "2020-09-11", date_forecast |-> date, reporting_area |-> "Sacramento",
     CO |-> IF "CO" \in S THEN Some(SampleMetric("CO", Some(FALSE))) ELSE None,
     NO2 |-> IF "NO2" \in S THEN Some(SampleMetric("NO2", Some(FALSE))) ELSE None,
     O3 |-> IF "O3" \in S THEN Some(SampleMetric("O3", Some(TRUE))) ELSE None,
     PM2_5 |-> IF "PM2_5" \in S THEN Some(SampleMetric("PM2_5", Some(FALSE))) ELSE None,
     PM10 |-> IF "PM10" \in S THEN Some(SampleMetric("PM10", Some(FALSE))) ELSE None,
     discussion |-> None]

ForecastSlotSample == {SlotNames, {"O3"}, {"CO", "PM10"}, {"PM2_5", "NO2", "O3"}}
ForecastEntities ==
    {ForecastEntity(d, S) : d \in {"2020-09-12", "2020-09-13"}, S \in ForecastSlotSample}

InitRender ==
    /\ current \in ObservationEntities
    /\ forecast \in SeqsUpTo(ForecastEntities, MaxForecasts)
    /\ picked = 0
    /\ morning_range = <<15, 19>>
    /\ utcnow \in {[date |-> 18517, second |-> 16 * 3600 + 30 * 60],
                   [date |-> 18517, second |-> 20 * 3600]}
    /\ op = "none"
    /\ result = Ok(<<>>)
    /\ MapperIdle /\ TzIdle /\ CycleIdle

Entity(k) == IF k = 0 THEN current ELSE forecast[k]

CallGetAqiRows ==
    /\ op = "none"
    /\ \E k \in 0..Len(forecast) :
        /\ picked' = k
        /\ result' = Ok(get_aqi_rows(Entity(k)))
    /\ op' = "get_aqi_rows"
    /\ UNCHANGED <<mapperVars, tzVars, eveVars, current, forecast, cycleVars>>

CallRenderMessage ==
    /\ op = "none"
    /\ op' = "render_message"
    /\ result' = Ok(render_message(current, forecast, morning_range, utcnow))
    /\ UNCHANGED <<mapperVars, tzVars, eveVars, renderVars, cycleVars>>

NextRender ==
    \/ CallGetAqiRows
    \/ CallRenderMessage

SpecRender == InitRender /\ [][NextRender]_vars

\* position of a slot in the fixed order CO, NO2, O3, PM2_5, PM10
SlotIndex(s) == CHOOSE i \in 1..5 : Slots[i] = s

\* rows are exactly the non-null slots of entity e, one each, in slot order
RowsMatch(rows, e) ==
    /\ Len(rows) = Cardinality({s \in SlotNames : e[s] # None})
    /\ \A i \in 1..Len(rows) :
        /\ rows[i].kind = "row"
        /\ MetricName(rows[i].text[2]) \in SlotNames
        /\ e[MetricName(rows[i].text[2])] # None
        /\ e[MetricName(rows[i].text[2])][1].AQI = rows[i].text[4]
    /\ \A i, j \in 1..Len(rows) :
        i < j => SlotIndex(MetricName(rows[i].text[2])) < SlotIndex(MetricName(rows[j].text[2]))

\* the indices of the block headers of a rendered message, ascending
HeaderIndices(msg) ==
    {i \in 1..Len(msg) : msg[i].kind \in {"current_header", "forecast_header"}}

\* the k-th smallest element of a set of numbers
RECURSIVE Kth(_, _)
Kth(S, k) ==
    LET lo == CHOOSE x \in S : \A y \in S : x <= y
    IN  IF k = 1 THEN lo ELSE Kth(S \ {lo}, k - 1)

\* the rows of the k-th block of msg (k = 1 is the observation block)
BlockRows(msg, k) ==
    LET H == HeaderIndices(msg)
        first == Kth(H, k)
        last == IF k < Cardinality(H) THEN Kth(H, k + 1) - 1 ELSE Len(msg)
        idx == {i \in first..last : msg[i].kind = "row"}
    IN  [n \in 1..Cardinality(idx) |-> msg[Kth(idx, n)]]

\* C8: the metric rows rendered for an Observation or Forecast are exactly
\* its non-null slots, one row each, in the order CO, NO2, O3, PM2_5, PM10
\* (an entity with only O3 yields exactly one row, for O3), and the report
\* holds the observation block followed by one forecast block per element of
\* forecast, in the order given.
C8_RowsAndBlocks ==
    /\ op = "get_aqi_rows" => RowsMatch(result.val, Entity(picked))
    /\ op = "render_message" =>
        LET msg == result.val
            H == HeaderIndices(msg)
        IN  /\ Cardinality(H) = 1 + Len(forecast)
            /\ msg[Kth(H, 1)].kind = "current_header"
            /\ RowsMatch(BlockRows(msg, 1), current)
            /\ \A k \in 1..Len(forecast) :
                /\ msg[Kth(H, k + 1)].kind = "forecast_header"
                /\ msg[Kth(H, k + 1) + 1] = Line("forecast_for", <<forecast[k].date_forecast>>)
                /\ RowsMatch(BlockRows(msg, k + 1), forecast[k])

\* C8 witness: a report of an observation with only O3 (one row) followed by
\* two forecasts of different dates and different populated slots
C8_Witness ==
    /\ op = "render_message" /\ Len(forecast) = 2
    /\ {s \in SlotNames : current[s] # None} = {"O3"}
    /\ Len(BlockRows(result.val, 1)) = 1
    /\ forecast[1].date_forecast = "2020-09-13" /\ forecast[2].date_forecast = "2020-09-12"
    /\ Len(BlockRows(result.val, 2)) = 2 /\ Len(BlockRows(result.val, 3)) = 5

----------------------------------------------------------------------------
(* handler.py: aqi_report                                                  *)

\* the required configuration keys, in the order aqi_report checks them
ConfigKeys ==
    <<"AQI_BOT_AIRNOW_API_TOKEN", "AQI_BOT_AIRNOW_ZIP_CODE",
      "AQI_BOT_DISCORD_BOT_URL", "AQI_BOT_MORNING_RANGE_UTC">>

RECURSIVE FirstMissing(_, _)
\* the first key of ConfigKeys[i..] that is not in environ, or None
FirstMissing(environ, i) ==
    IF i > Len(ConfigKeys) THEN None
    ELSE IF ConfigKeys[i] \notin environ THEN Some(ConfigKeys[i])
    ELSE FirstMissing(environ, i + 1)

\* the four checks with the message of the first one copied into the others
check_config_first_key(environ) ==
    IF FirstMissing(environ, 1) # None
    THEN [exc |-> "EnvironmentError", val |-> <<"Missing", ConfigKeys[1]>>]
    ELSE Ok(<<>>)

\* the four `if KEY not in os.environ: raise EnvironmentError("Missing KEY")`
check_config(environ) ==
    LET missing == FirstMissing(environ, 1)
    IN  IF missing # None
        THEN [exc |-> "EnvironmentError", val |-> <<"Missing", missing[1]>>]
        ELSE Ok(<<>>)

\* str.split(",") on a text whose tokens are fields and "," separators
\* (the texts used have no empty field)
split(text) == SelectSeq(text, LAMBDA t : t # ",")

\* int(x) on a field
NumeralValue(t) ==
    CASE t = "0" -> 0 [] t = "15" -> 15 [] t = "19" -> 19 [] t = "23" -> 23 [] OTHER -> -1
int(t) == IF NumeralValue(t) >= 0 THEN Ok(NumeralValue(t)) ELSE Raise("ValueError")

\* morning_range = [int(x) for x in AQI_BOT_MORNING_RANGE_UTC.split(",")]
parse_range(text) ==
    LET fields == split(text)
    IN  IF \E i \in 1..Len(fields) : int(fields[i]).exc # "none"
        THEN Raise("ValueError")
        ELSE Ok([i \in 1..Len(fields) |-> int(fields[i]).val])

\* aqi_report, lines 13-30: the configuration is checked and parsed
read_config(environ, text) ==
    IF check_config(environ).exc # "none" THEN check_config(environ)
    ELSE parse_range(text)

\* render_message as aqi_report calls it: is_evening indexes morning_range[0]
\* and morning_range[1], an IndexError on a shorter list
render(cur, fs, range, now) ==
    IF Len(range) < 2 THEN Raise("IndexError")
    ELSE Ok(render_message(cur, fs, range, now))

\* date.strftime("%Y-%m-%d")
strftime_ymd(d) == <<d.year, "-", d.month, "-", d.day>>

\* the statement after a call that raised is reached all the same
NextPcSwallow(outcome, next) == next

\* an exception leaves aqi_report at once; otherwise the next statement runs
NextPc(outcome, next) == IF outcome.exc # "none" THEN "failed" ELSE next

Call(name, date, content) == [call |-> name, date |-> date, on |-> today, content |-> content]

----------------------------------------------------------------------------
(* Specification SpecCycle: invocations of aqi_report in one process       *)

MaxInvocations == 2     \* invocations of aqi_report in one process
MaxDayAdvance == 1      \* midnights that pass while the process lives

LoadDate == [year |-> 2020, month |-> 9, day |-> 12]
NextDay(d) == [d EXCEPT !.day = @ + 1]

RangeTexts == {<<"15", ",", "19">>, <<"15">>, <<"x", ",", "19">>}

\* what the observation endpoint may answer
ObsResponses ==
    {[status |-> 200, json |-> <<>>],
     [status |-> 200, json |-> <<ObsRecord(<<"2020-09-12", " ">>, "PST", "O3", <<155, 4>>),
                                 ObsRecord(<<"2020-09-12", " ">>, "PST", "PM2.5", <<42, 1>>)>>],
     [status |-> 200, json |-> <<ObsRecord(<<"2020-09-12">>, "UTC", "O3", <<42, 1>>)>>],
     [status |-> 500, json |-> <<>>]}

\* what the forecast endpoint may answer
FcResponses ==
    {[status |-> 200, json |-> <<>>],
     [status |-> 200, json |-> DayMajor(<<<<"2020-09-12", " ">>, <<"2020-09-13">>>>)],
     [status |-> 200, json |-> Alternating(<<"2020-09-12">>, <<"2020-09-13">>)],
     [status |-> 404, json |-> <<>>]}

\* what the webhook may answer
PostStatuses == {204, 500}

NowSample == {[date |-> 18517, second |-> 16 * 3600 + 30 * 60],
              [date |-> 18517, second |-> 20 * 3600]}

InitCycle ==
    /\ env \in SUBSET Range(ConfigKeys)
    /\ range_text \in RangeTexts
    /\ pc = "idle"
    /\ calls = <<>>
    /\ today = LoadDate
    /\ default_date = LoadDate
    /\ invocations = 0
    /\ current = <<>> /\ forecast = <<>> /\ picked = 0
    /\ morning_range = <<>> /\ utcnow = [date |-> 18517, second |-> 0]
    /\ op = "none"
    /\ result = Ok(<<>>)
    /\ MapperIdle /\ TzIdle

\* aqi_report is entered: lines 13-30
Invoke ==
    /\ pc \in {"idle", "done", "failed"}
    /\ invocations < MaxInvocations
    /\ invocations' = invocations + 1
    /\ calls' = <<>> /\ current' = <<>> /\ forecast' = <<>>
    /\ op' = "read_config"
    /\ result' = read_config(env, range_text)
    /\ morning_range' = IF result'.exc = "none" THEN result'.val ELSE <<>>
    /\ pc' = NextPc(result', "get_current")
    /\ UNCHANGED <<mapperVars, tzVars, utcnow, picked, env, range_text, today, default_date>>

\* line 32: current = airnow.get_current(zip)
DoGetCurrent ==
    /\ pc = "get_current"
    /\ \E resp \in ObsResponses :
        /\ result' = get_current(resp)
        /\ calls' = Append(calls, Call("GET current", <<>>, <<>>))
    /\ op' = "get_current"
    /\ current' = IF result'.exc = "none" THEN result'.val ELSE <<>>
    /\ pc' = NextPc(result', "get_forecast")
    /\ UNCHANGED <<mapperVars, tzVars, eveVars, forecast, picked,
                   env, range_text, today, default_date, invocations>>

\* line 33: forecast = airnow.get_forecast(zip); the date parameter is the
\* default bound to the function
DoGetForecast ==
    /\ pc = "get_forecast"
    /\ \E resp \in FcResponses :
        /\ result' = get_forecast(resp)
        /\ calls' = Append(calls, Call("GET forecast", strftime_ymd(default_date), <<>>))
    /\ op' = "get_forecast"
    /\ forecast' = IF result'.exc = "none" THEN result'.val ELSE <<>>
    /\ pc' = NextPc(result', "render")
    /\ UNCHANGED <<mapperVars, tzVars, eveVars, current, picked,
                   env, range_text, today, default_date, invocations>>

\* lines 35-45: the message is rendered and posted to the webhook
DoRenderAndPost ==
    /\ pc = "render"
    /\ \E now \in NowSample, st \in PostStatuses :
        LET message == render(current, forecast, morning_range, now)
        IN  /\ utcnow' = now
            /\ IF message.exc # "none"
               THEN /\ op' = "render_message"
                    /\ result' = message
                    /\ calls' = calls
               ELSE /\ op' = "post"
                    /\ result' = raise_for_status(st)
                    /\ calls' = Append(calls, Call("POST", <<>>, message.val))
    /\ pc' = NextPc(result', "done")
    /\ UNCHANGED <<mapperVars, tzVars, morning_range, renderVars,
                   env, range_text, today, default_date, invocations>>

\* the calendar date changes while the process is alive
Midnight ==
    /\ pc \in {"idle", "done", "failed", "get_current", "get_forecast", "render"}
    /\ today.day - LoadDate.day < MaxDayAdvance
    /\ today' = NextDay(today)
    /\ UNCHANGED <<op, result, mapperVars, tzVars, eveVars, renderVars,
                   env, range_text, pc, calls, default_date, invocations>>

NextCycle ==
    \/ Invoke
    \/ DoGetCurrent
    \/ DoGetForecast
    \/ DoRenderAndPost
    \/ Midnight

SpecCycle == InitCycle /\ [][NextCycle]_vars

----------------------------------------------------------------------------
(* Properties of the report cycle (checked under SpecCycle)                *)

CallNames == [i \in 1..Len(calls) |-> calls[i].call]

\* C4: in every invocation of aqi_report the external calls are made in the
\* order GET current, GET forecast, POST, each at most once; the POST is
\* issued only after both GETs succeeded and both mappings and the rendering
\* completed (it carries the rendering of what they returned); a step that
\* fails (status, empty array, mapping, zone, rendering) ends the invocation
\* with no later call, no retry and no POST.
C4_CallOrder ==
    /\ CallNames \in {<<>>, <<"GET current">>, <<"GET current", "GET forecast">>,
                      <<"GET current", "GET forecast", "POST">>}
    /\ result.exc # "none" => pc = "failed"
    /\ pc = "failed" =>
        /\ result.exc # "none"
        /\ op = "read_config" => CallNames = <<>>
        /\ op = "get_current" => CallNames = <<"GET current">>
        /\ op \in {"get_forecast", "render_message"}
              => CallNames = <<"GET current", "GET forecast">>
        /\ op = "post" => CallNames = <<"GET current", "GET forecast", "POST">>
        /\ ~ENABLED (DoGetCurrent \/ DoGetForecast \/ DoRenderAndPost)
    /\ Len(calls) >= 2 => current # <<>>
    /\ Len(calls) = 3 =>
        /\ current # <<>>
        /\ Len(morning_range) = 2
        /\ calls[3].content = render_message(current, forecast, morning_range, utcnow)
        /\ Len(forecast) > 0
    /\ pc = "done" => Len(calls) = 3 /\ op = "post"

\* C4 witness: a completed cycle with the three calls in order
C4_Witness ==
    /\ pc = "done" /\ invocations = 2
    /\ CallNames = <<"GET current", "GET forecast", "POST">>
    /\ Len(forecast) = 2

\* C5: when any of the four required configuration values is absent,
\* aqi_report fails with an error naming a key that is missing, before any
\* HTTP GET or POST, whichever subset is missing.
C5_MissingConfig ==
    (env # Range(ConfigKeys)) =>
        /\ calls = <<>>
        /\ pc \in {"idle", "failed"}
        /\ op = "read_config" =>
            /\ pc = "failed"
            /\ result.exc = "EnvironmentError"
            /\ result.val[1] = "Missing"
            /\ result.val[2] \in Range(ConfigKeys) \ env

\* C5 witness: the webhook URL and the morning window are both absent; the
\* error names the URL key
C5_Witness ==
    /\ op = "read_config" /\ pc = "failed"
    /\ env = {"AQI_BOT_AIRNOW_API_TOKEN", "AQI_BOT_AIRNOW_ZIP_CODE"}
    /\ result.val = <<"Missing", "AQI_BOT_DISCORD_BOT_URL">>

\* C6 as stated: the date parameter of every forecast GET made without an
\* explicit date is the calendar date current at the time of the call, also
\* after the date has changed since the module was loaded
C6_Original ==
    \A i \in 1..Len(calls) :
        calls[i].call = "GET forecast" => calls[i].date = strftime_ymd(calls[i].on)

====
